---- MODULE Spec2Model ----
(***************************************************************************)
(* debug_unwraps: extension methods on Option<T> and Result<T, E> that     *)
(* forward to the checked std extraction (unwrap / expect / unwrap_err /   *)
(* expect_err) when debug assertions are compiled in, and to the unchecked *)
(* one (unwrap_unchecked / unwrap_err_unchecked) when they are not.        *)
(*                                                                         *)
(* The model runs a small program: two threads, each of which repeatedly   *)
(* builds a container, evaluates the message argument (if the method takes *)
(* one) and calls one of the six methods of src/lib.rs on it.              *)
(***************************************************************************)
EXTENDS Integers, Sequences, FiniteSets

\* ------------------------------------------------------------------ bounds
\* Total number of method calls made in one run.
MaxCalls == 3
\* Longest caller-supplied message.
MaxMsgLen == 1

Threads == {"t1", "t2"}
Alphabet == {"a", "b"}

\* ---------------------------------------------------------------- payloads
\* A payload is a value of the generic parameter T or E.  Three concrete
\* types are used: i32, &str and a unit-variant enum.
I32(n) == [ty |-> "i32", n |-> n, s |-> <<>>]
Str(s) == [ty |-> "str", n |-> 0, s |-> s]
Enum(name) == [ty |-> "enum", n |-> 0, s |-> <<name>>]
NoValue == [ty |-> "none", n |-> 0, s |-> <<>>]

Payloads == {I32(42), Str(<<"o", "k">>), Enum("NotFound")}

\* ------------------------------------------------------------- containers
Some(p) == [tag |-> "Some", p |-> p]
None == [tag |-> "None", p |-> NoValue]
Ok(p) == [tag |-> "Ok", p |-> p]
Err(p) == [tag |-> "Err", p |-> p]
\* The caller's variable before it is bound and after it was moved from.
Unbound == [tag |-> "Unbound", p |-> NoValue]
Moved == [tag |-> "Moved", p |-> NoValue]

Options == {None} \cup {Some(p) : p \in Payloads}
Results == {Ok(p) : p \in Payloads} \cup {Err(p) : p \in Payloads}

\* --------------------------------------------------------------- messages
RECURSIVE SeqsUpTo(_, _)
SeqsUpTo(S, n) ==
    IF n = 0 THEN {<<>>}
    ELSE LET shorter == SeqsUpTo(S, n - 1)
         IN shorter \cup {Append(m, c) : m \in shorter, c \in S}

Msgs == SeqsUpTo(Alphabet, MaxMsgLen)
NoMsg == <<>>

\* sub occurs in m as a contiguous run of characters.
Contains(m, sub) ==
    \E i \in 0..Len(m) :
        /\ i + Len(sub) <= Len(m)
        /\ \A k \in 1..Len(sub) : m[i + k] = sub[k]

\* ------------------------------------------------------------- fmt::Debug
Digit(d) ==
    CASE d = 0 -> "0" [] d = 1 -> "1" [] d = 2 -> "2" [] d = 3 -> "3"
      [] d = 4 -> "4" [] d = 5 -> "5" [] d = 6 -> "6" [] d = 7 -> "7"
      [] d = 8 -> "8" [] d = 9 -> "9"

RECURSIVE Decimal(_)
Decimal(n) == IF n < 10 THEN <<Digit(n)>> ELSE Append(Decimal(n \div 10), Digit(n % 10))

\* The character U+0022.
DQuote == "<dquote>"

\* {:?} of a payload: decimal digits for i32, the quoted text for &str, the
\* variant name for a unit enum variant.
Debug(p) ==
    CASE p.ty = "i32" -> Decimal(p.n)
      [] p.ty = "str" -> <<DQuote>> \o p.s \o <<DQuote>>
      [] p.ty = "enum" -> p.s

\* ---------------------------------------------------------------- outcomes
\* What one call does: it returns val, or panics with message, or (as a
\* manifestation of undefined behaviour) crashes the process.  dropped lists
\* the payloads whose destructor ran, path says which std extraction ran,
\* ub marks an outcome the language leaves undefined.
Return(v, path) ==
    [kind |-> "return", val |-> v, message |-> <<>>, dropped |-> <<>>,
     path |-> path, ub |-> FALSE]
Panic(m, dropped) ==
    [kind |-> "panic", val |-> NoValue, message |-> m, dropped |-> dropped,
     path |-> "checked", ub |-> FALSE]
\* hint::unreachable_unchecked() was reached: the build may hand back any
\* bit pattern as the payload, or trap.
Undefined ==
    {[kind |-> "return", val |-> g, message |-> <<>>, dropped |-> <<>>,
      path |-> "unchecked", ub |-> TRUE] : g \in Payloads}
    \cup {[kind |-> "crash", val |-> NoValue, message |-> <<>>, dropped |-> <<>>,
           path |-> "unchecked", ub |-> TRUE]}

\* ------------------------------------------------- std extraction methods
\* The panic messages are those of std, written without their backquotes.
\* core::result::unwrap_failed: panic!("{msg}: {error:?}")
unwrap_failed(msg, error) == msg \o <<": ">> \o Debug(error)

Option_unwrap(self) ==
    IF self.tag = "Some" THEN {Return(self.p, "checked")}
    ELSE {Panic(<<"called Option::unwrap() on a None value">>, <<>>)}

Option_expect(self, msg) ==
    IF self.tag = "Some" THEN {Return(self.p, "checked")}
    ELSE {Panic(msg, <<>>)}

Option_unwrap_unchecked(self) ==
    IF self.tag = "Some" THEN {Return(self.p, "unchecked")}
    ELSE Undefined

Result_unwrap(self) ==
    IF self.tag = "Ok" THEN {Return(self.p, "checked")}
    ELSE {Panic(unwrap_failed(<<"called Result::unwrap() on an Err value">>, self.p),
                <<self.p>>)}

Result_expect(self, msg) ==
    IF self.tag = "Ok" THEN {Return(self.p, "checked")}
    ELSE {Panic(unwrap_failed(msg, self.p), <<self.p>>)}

Result_unwrap_err(self) ==
    IF self.tag = "Err" THEN {Return(self.p, "checked")}
    ELSE {Panic(unwrap_failed(<<"called Result::unwrap_err() on an Ok value">>, self.p),
                <<self.p>>)}

Result_expect_err(self, msg) ==
    IF self.tag = "Err" THEN {Return(self.p, "checked")}
    ELSE {Panic(unwrap_failed(msg, self.p), <<self.p>>)}

Result_unwrap_unchecked(self) ==
    IF self.tag = "Ok" THEN {Return(self.p, "unchecked")}
    ELSE Undefined

Result_unwrap_err_unchecked(self) ==
    IF self.tag = "Err" THEN {Return(self.p, "unchecked")}
    ELSE Undefined

\* ------------------------------------------------------------------- state
VARIABLES
    debug_assertions,  \* cfg(debug_assertions) of the build that is running
    pc,                \* per thread: "idle", "bound", "done" or "panicked"
    container,         \* per thread: the caller's container variable
    call,              \* per thread: the method, receiver and message of the call
    res,               \* per thread: the outcome of the call
    counter,           \* side effects of evaluating message arguments
    customCalls,       \* calls of a method that takes msg
    ncalls,            \* calls bound so far
    paths,             \* the std paths taken by the calls so far
    crashed            \* the process was brought down by undefined behaviour

vars == <<debug_assertions, pc, container, call, res, counter,
          customCalls, ncalls, paths, crashed>>

\* ------------------------------------------------ the methods of src/lib.rs
\* Each method yields the set of outcomes the call can have: one outcome
\* wherever the behaviour is defined.

\* (variant: the cfg attributes are swapped)
Option_debug_unwrap_unchecked_swapped(self) ==
    IF debug_assertions THEN Option_unwrap_unchecked(self) ELSE Option_unwrap(self)

\* impl DebugUnwrapExt for Option<T>
Option_debug_unwrap_unchecked(self) ==
    IF debug_assertions THEN Option_unwrap(self) ELSE Option_unwrap_unchecked(self)

\* (variant: the release block still calls expect)
Option_debug_expect_unchecked_always_expect(self, msg) ==
    Option_expect(self, msg)

\* (variant: a process-wide poison flag, set by any earlier panic)
Option_debug_expect_unchecked_poisoned(self, msg) ==
    IF \E t \in Threads : pc[t] = "panicked"
    THEN {Panic(<<"poisoned">> \o msg, <<>>)}
    ELSE IF debug_assertions THEN Option_expect(self, msg)
         ELSE Option_unwrap_unchecked(self)

Option_debug_expect_unchecked(self, msg) ==
    IF debug_assertions THEN Option_expect(self, msg) ELSE Option_unwrap_unchecked(self)

\* (variant: no cfg gate, unwrap in every build)
Result_debug_unwrap_unchecked_ungated(self) == Result_unwrap(self)

\* (variant: the payload is cloned out of a borrowed container, which is
\* then dropped together with the original payload)
Result_debug_unwrap_unchecked_cloning(self) ==
    {[o EXCEPT !.dropped = <<self.p>>] :
        o \in IF debug_assertions THEN Result_unwrap(self)
              ELSE Result_unwrap_unchecked(self)}

\* impl DebugUnwrapExt for Result<T, E>
Result_debug_unwrap_unchecked(self) ==
    IF debug_assertions THEN Result_unwrap(self) ELSE Result_unwrap_unchecked(self)

\* (variant: the debug block calls unwrap and leaves msg unused)
Result_debug_expect_unchecked_unwrap(self, msg) ==
    IF debug_assertions THEN Result_unwrap(self) ELSE Result_unwrap_unchecked(self)

Result_debug_expect_unchecked(self, msg) ==
    IF debug_assertions THEN Result_expect(self, msg) ELSE Result_unwrap_unchecked(self)

\* (variant: self.err().unwrap(), which needs no T: Debug)
Result_debug_unwrap_err_unchecked_via_option(self) ==
    IF debug_assertions
    THEN {[o EXCEPT !.dropped = IF o.kind = "panic" THEN <<self.p>> ELSE <<>>] :
            o \in Option_unwrap(IF self.tag = "Err" THEN Some(self.p) ELSE None)}
    ELSE Result_unwrap_err_unchecked(self)

\* impl DebugUnwrapErrExt for Result<T, E>
Result_debug_unwrap_err_unchecked(self) ==
    IF debug_assertions THEN Result_unwrap_err(self) ELSE Result_unwrap_err_unchecked(self)

\* (variant: the release block was copied from debug_expect_unchecked)
Result_debug_expect_err_unchecked_copied(self, msg) ==
    IF debug_assertions THEN Result_expect_err(self, msg) ELSE Result_unwrap_unchecked(self)

Result_debug_expect_err_unchecked(self, msg) ==
    IF debug_assertions THEN Result_expect_err(self, msg)
    ELSE Result_unwrap_err_unchecked(self)

\* ----------------------------------------------------------------- callers
OptionMethods == {"Option::debug_unwrap_unchecked", "Option::debug_expect_unchecked"}
ResultMethods == {"Result::debug_unwrap_unchecked", "Result::debug_expect_unchecked",
                  "Result::debug_unwrap_err_unchecked", "Result::debug_expect_err_unchecked"}
Methods == OptionMethods \cup ResultMethods

\* The methods declared with a msg: &str parameter.
TakesMsg(op) ==
    op \in {"Option::debug_expect_unchecked", "Result::debug_expect_unchecked",
            "Result::debug_expect_err_unchecked"}

\* The default-message method next to a custom-message one.
DefaultOf(op) ==
    CASE op = "Option::debug_expect_unchecked" -> "Option::debug_unwrap_unchecked"
      [] op = "Result::debug_expect_unchecked" -> "Result::debug_unwrap_unchecked"
      [] op = "Result::debug_expect_err_unchecked" -> "Result::debug_unwrap_err_unchecked"
      [] OTHER -> op

\* The variant the Panics section of each method names as the accepted one.
Expects(op) ==
    CASE op \in OptionMethods -> "Some"
      [] op \in {"Result::debug_unwrap_unchecked", "Result::debug_expect_unchecked"} -> "Ok"
      [] OTHER -> "Err"

InState(c) == c.self.tag = Expects(c.op)

Receivers(op) == IF op \in OptionMethods THEN Options ELSE Results

\* Method dispatch on the receiver type and the method name.
Outcomes(op, self, msg) ==
    CASE op = "Option::debug_unwrap_unchecked" -> Option_debug_unwrap_unchecked(self)
      [] op = "Option::debug_expect_unchecked" -> Option_debug_expect_unchecked(self, msg)
      [] op = "Result::debug_unwrap_unchecked" -> Result_debug_unwrap_unchecked(self)
      [] op = "Result::debug_expect_unchecked" -> Result_debug_expect_unchecked(self, msg)
      [] op = "Result::debug_unwrap_err_unchecked" -> Result_debug_unwrap_err_unchecked(self)
      [] op = "Result::debug_expect_err_unchecked" ->
            Result_debug_expect_err_unchecked(self, msg)

\* (variant: the message expression is only evaluated where it is used, as
\* the argument of a macro would be)
EvalArgs_lazy(op) == IF TakesMsg(op) /\ debug_assertions THEN 1 ELSE 0

\* How often a call of op evaluates the expression given for msg: msg is an
\* ordinary by-value parameter, so once, before the body runs.
EvalArgs(op) == IF TakesMsg(op) THEN 1 ELSE 0

NoCall == [op |-> "none", self |-> Unbound, msg |-> NoMsg]
NoRes ==
    [kind |-> "none", val |-> NoValue, message |-> <<>>, dropped |-> <<>>,
     path |-> "none", ub |-> FALSE]

Init ==
    /\ debug_assertions \in BOOLEAN
    /\ pc = [t \in Threads |-> "idle"]
    /\ container = [t \in Threads |-> Unbound]
    /\ call = [t \in Threads |-> NoCall]
    /\ res = [t \in Threads |-> NoRes]
    /\ counter = 0
    /\ customCalls = 0
    /\ ncalls = 0
    /\ paths = {}
    /\ crashed = FALSE

\* The caller builds a container and evaluates the arguments of the call.
Bind(t) ==
    /\ ~crashed
    /\ pc[t] = "idle"
    /\ ncalls < MaxCalls
    /\ \E op \in Methods :
        \E self \in Receivers(op) :
            \E msg \in IF TakesMsg(op) THEN Msgs ELSE {NoMsg} :
                /\ container' = [container EXCEPT ![t] = self]
                /\ call' = [call EXCEPT ![t] = [op |-> op, self |-> self, msg |-> msg]]
                /\ counter' = counter + EvalArgs(op)
                /\ customCalls' = customCalls + (IF TakesMsg(op) THEN 1 ELSE 0)
    /\ pc' = [pc EXCEPT ![t] = "bound"]
    /\ ncalls' = ncalls + 1
    /\ UNCHANGED <<debug_assertions, res, paths, crashed>>

\* The call itself: self is moved into the method, which returns, unwinds
\* the calling thread, or (undefined behaviour) may take the process down.
Finish(t, o) ==
    /\ res' = [res EXCEPT ![t] = o]
    /\ container' = [container EXCEPT ![t] = Moved]
    /\ pc' = [pc EXCEPT ![t] = CASE o.kind = "return" -> "done"
                                 [] o.kind = "panic" -> "panicked"
                                 [] OTHER -> "crashed"]
    /\ crashed' = (crashed \/ o.kind = "crash")
    /\ paths' = paths \cup {o.path}
    /\ UNCHANGED <<debug_assertions, call, counter, customCalls, ncalls>>

Ready(t, op) == ~crashed /\ pc[t] = "bound" /\ call[t].op = op

CallOptionUnwrap(t) ==
    /\ Ready(t, "Option::debug_unwrap_unchecked")
    /\ \E o \in Option_debug_unwrap_unchecked(container[t]) : Finish(t, o)

CallOptionExpect(t) ==
    /\ Ready(t, "Option::debug_expect_unchecked")
    /\ \E o \in Option_debug_expect_unchecked(container[t], call[t].msg) : Finish(t, o)

CallResultUnwrap(t) ==
    /\ Ready(t, "Result::debug_unwrap_unchecked")
    /\ \E o \in Result_debug_unwrap_unchecked(container[t]) : Finish(t, o)

CallResultExpect(t) ==
    /\ Ready(t, "Result::debug_expect_unchecked")
    /\ \E o \in Result_debug_expect_unchecked(container[t], call[t].msg) : Finish(t, o)

CallResultUnwrapErr(t) ==
    /\ Ready(t, "Result::debug_unwrap_err_unchecked")
    /\ \E o \in Result_debug_unwrap_err_unchecked(container[t]) : Finish(t, o)

CallResultExpectErr(t) ==
    /\ Ready(t, "Result::debug_expect_err_unchecked")
    /\ \E o \in Result_debug_expect_err_unchecked(container[t], call[t].msg) : Finish(t, o)

\* The caller is done with the returned payload and goes on to its next call.
Continue(t) ==
    /\ ~crashed
    /\ pc[t] = "done"
    /\ pc' = [pc EXCEPT ![t] = "idle"]
    /\ container' = [container EXCEPT ![t] = Unbound]
    /\ call' = [call EXCEPT ![t] = NoCall]
    /\ res' = [res EXCEPT ![t] = NoRes]
    /\ UNCHANGED <<debug_assertions, counter, customCalls, ncalls, paths, crashed>>

Next ==
    \E t \in Threads :
        \/ Bind(t)
        \/ CallOptionUnwrap(t)
        \/ CallOptionExpect(t)
        \/ CallResultUnwrap(t)
        \/ CallResultExpect(t)
        \/ CallResultUnwrapErr(t)
        \/ CallResultExpectErr(t)
        \/ Continue(t)

Spec == Init /\ [][Next]_vars

Finished(t) == pc[t] \in {"done", "panicked", "crashed"}

Payload(c) == IF c.tag \in {"Some", "Ok", "Err"} THEN <<c.p>> ELSE <<>>

\* ------------------------------------------------------------------ claims

C2_DebugOutOfStatePanics ==
    \A t \in Threads :
        (debug_assertions /\ Finished(t) /\ ~InState(call[t])) =>
            /\ res[t].kind = "panic"
            /\ res[t].val = NoValue
            /\ pc[t] = "panicked"

C2_Witness ==
    \E t \in Threads :
        /\ debug_assertions
        /\ pc[t] = "panicked"
        /\ call[t].op = "Option::debug_unwrap_unchecked"
        /\ call[t].self = None

\* C3: with debug assertions and a container not in the expected state, the
\* panic message of a custom-message method contains the caller's msg, and
\* the panic message of a default-message method is a non-empty description
\* that is none of the caller's text.
C3_PanicMessage ==
    \A t \in Threads :
        (debug_assertions /\ Finished(t) /\ ~InState(call[t])) =>
            /\ res[t].kind = "panic"
            /\ IF TakesMsg(call[t].op)
               THEN Contains(res[t].message, call[t].msg)
               ELSE /\ Len(res[t].message) > 0
                    /\ res[t].message[1] \notin Alphabet

C3_Witness ==
    \E t \in Threads :
        /\ debug_assertions
        /\ pc[t] = "panicked"
        /\ call[t].op = "Result::debug_expect_err_unchecked"
        /\ call[t].self = Ok(Str(<<"o", "k">>))
        /\ call[t].msg = <<"b">>
        /\ res[t].message[1] = "b"

\* C4 as claimed: without debug assertions the side-effect counter of the
\* message expression stays at zero.
C4_CounterStaysZero == ~debug_assertions => counter = 0

\* C4 as amended: without debug assertions the message expression is
\* evaluated once per custom-message call, and its value is never used: the
\* outcome of the call is an outcome of the same call with any other message.
C4_MsgEvaluatedButUnused ==
    ~debug_assertions =>
        /\ counter = customCalls
        /\ \A t \in Threads :
            (Finished(t) /\ TakesMsg(call[t].op)) =>
                /\ \A m \in Msgs : res[t] \in Outcomes(call[t].op, call[t].self, m)
                /\ res[t].message = <<>>

C4_Witness ==
    /\ ~debug_assertions
    /\ counter = 2
    /\ \E t \in Threads :
        /\ pc[t] = "done"
        /\ call[t].op = "Option::debug_expect_unchecked"
        /\ call[t].msg = <<"a">>

\* C5: with debug assertions, the default-message panic of
\* Result::debug_unwrap_unchecked on Err(e) contains the debug rendering of
\* e, and that of debug_unwrap_err_unchecked on Ok(t) the rendering of t.
C5_PanicCarriesPayload ==
    \A t \in Threads :
        ( /\ debug_assertions
          /\ Finished(t)
          /\ call[t].op \in {"Result::debug_unwrap_unchecked",
                             "Result::debug_unwrap_err_unchecked"}
          /\ ~InState(call[t]) ) =>
            /\ res[t].kind = "panic"
            /\ Contains(res[t].message, Debug(call[t].self.p))

C5_Witness ==
    \E t \in Threads :
        /\ debug_assertions
        /\ pc[t] = "panicked"
        /\ call[t].op = "Result::debug_unwrap_err_unchecked"
        /\ call[t].self = Ok(I32(42))
        /\ Contains(res[t].message, <<"4", "2">>)

\* C6 as claimed: without debug assertions, debug_unwrap_err_unchecked and
\* debug_expect_err_unchecked on an Err value are undefined behaviour.
C6_ErrIsUndefined ==
    \A t \in Threads :
        ( /\ ~debug_assertions
          /\ Finished(t)
          /\ call[t].op \in {"Result::debug_unwrap_err_unchecked",
                             "Result::debug_expect_err_unchecked"}
          /\ call[t].self.tag = "Err" ) => res[t].ub

C8_ModeFixed ==
    [][/\ debug_assertions' = debug_assertions
       /\ Cardinality(paths') <= 1
       /\ paths' \subseteq {IF debug_assertions THEN "checked" ELSE "unchecked"}]_vars

C8_Witness ==
    /\ ncalls = 2
    /\ paths = {"unchecked"}
    /\ \E t, u \in Threads :
        /\ t # u
        /\ pc[t] = "done" /\ call[t].op = "Result::debug_unwrap_unchecked"
        /\ pc[u] = "done" /\ call[u].op = "Option::debug_unwrap_unchecked"

\* C9: the outcome of a finished call is an outcome of its method on its own
\* container and message, whatever the other threads have done since; and a
\* thread that panics leaves every other thread's call as it was.
C9_OwnInputsOnly ==
    \A t \in Threads :
        Finished(t) => res[t] \in Outcomes(call[t].op, call[t].self, call[t].msg)

C9_PanicIsLocal ==
    \A t, u \in Threads :
        (t # u /\ pc[t] # "panicked" /\ pc'[t] = "panicked") =>
            /\ pc'[u] = pc[u]
            /\ container'[u] = container[u]
            /\ call'[u] = call[u]
            /\ res'[u] = res[u]
            /\ crashed' = crashed

C9_Independent == []C9_OwnInputsOnly /\ [][C9_PanicIsLocal]_vars

C9_Witness ==
    \E t, u \in Threads :
        /\ t # u
        /\ pc[t] = "panicked"
        /\ ncalls = 3
        /\ pc[u] = "done"
        /\ call[u].op = "Option::debug_expect_unchecked"
        /\ res[u].val = I32(42)

\* C10: a call consumes its container in one step: afterwards the caller's
\* variable is moved-from; a returned payload is the stored one and was not
\* also dropped; on the checked failing path the stored payload is dropped
\* and nothing reaches the caller.
C10_Consumed ==
    \A t \in Threads :
        Finished(t) =>
            /\ container[t] = Moved
            /\ (res[t].kind = "return" /\ ~res[t].ub) =>
                    /\ <<res[t].val>> = Payload(call[t].self)
                    /\ res[t].dropped = <<>>
            /\ res[t].kind = "panic" =>
                    /\ res[t].val = NoValue
                    /\ res[t].dropped = Payload(call[t].self)

C10_OneStep ==
    \A t \in Threads :
        /\ (pc[t] = "bound" /\ pc'[t] # "bound") =>
                (Finished(t)' /\ container[t] = call[t].self /\ container'[t] = Moved)
        /\ container[t] = Moved => container'[t] \in {Moved, Unbound}

C10_ConsumesOnce == []C10_Consumed /\ [][C10_OneStep]_vars

C10_Witness ==
    \E t, u \in Threads :
        /\ t # u
        /\ pc[t] = "panicked"
        /\ call[t].op = "Result::debug_unwrap_unchecked"
        /\ res[t].dropped = <<Enum("NotFound")>>
        /\ container[t] = Moved
        /\ pc[u] = "done"
        /\ call[u].op = "Result::debug_unwrap_unchecked"
        /\ res[u].val = I32(42)
        /\ container[u] = Moved
====
